---- MODULE Spec2Model ----
(***************************************************************************)
(* A model of the flow-server-framework core:                              *)
(*   - the lifecycle of the Flow container and of its engines              *)
(*     (src/src/core/Flow.js, Engine.js), as call frames that advance from *)
(*     one await to the next;                                              *)
(*   - the ServiceManager registry (src/src/core/ServiceManager.js);        *)
(*   - the request handling of the HttpEngine                              *)
(*     (src/src/core/HttpEngine.js).                                       *)
(***************************************************************************)
EXTENDS Naturals, Integers, Sequences, FiniteSets, TLC

VARIABLES
  \* ---- Flow / Engine program state
  engines,      \* Flow.engines: the registered engines, in Map insertion order
  flowOf,       \* Engine.flow: TRUE when the engine holds a reference to the Flow
  initialized,  \* .initialized of the Flow ("flow") and of every engine
  started,      \* .started of the Flow ("flow") and of every engine
  listeners,    \* .eventListeners of all units: registrations in order
  stack,        \* the chain of async lifecycle calls in progress (top = last)
  \* ---- Flow / Engine observation (history) variables
  log,          \* what the current top-level call has done so far
  cur,          \* the current (or last) top-level call and its result
  prev,         \* the call before it: its result if it was the same call on the
                \* same unit, "stopped" if it was a stop() that stopped the unit
  callPre,      \* the flags when the current top-level call began
  loopPre,      \* the flags when the Flow's current engine loop began
  unwound,      \* the frames an exception unwound in the current call
  \* ---- ServiceManager program state
  services,     \* ServiceManager.services
  factories,    \* ServiceManager.factories
  aliases,      \* ServiceManager.aliases
  tags,         \* ServiceManager.tags
  \* ---- ServiceManager observation (history) variables
  invoked,      \* per factory: how many times it has been invoked
  regLast,      \* the last registry call and how it ended
  regOrder,     \* the successful tagged registrations, in order: <<name, tag>>
  \* ---- HttpEngine program state
  routes,       \* HttpEngine.routes: route key -> handler
  middlewares,  \* HttpEngine.middlewares, in order of use()
  req,          \* the _handleRequest activation: request, ctx, res, position
  \* ---- HttpEngine observation (history) variables
  routeLog,     \* the addRoute calls made, in order: <<method, path>>
  reqPrev,      \* "caught" when the request before the current one ended in
                \* the catch block
  \* ---- calls in flight besides the running one
  parked,       \* the calls suspended at an await while another one runs:
                \* each its frames and its call record
  issued        \* how many calls were made while another one was in flight,
                \* since the last call made with none in flight

lifeVars == <<engines, flowOf, initialized, started, listeners, stack,
              log, cur, prev, callPre, loopPre, unwound>>
regVars  == <<services, factories, aliases, tags, invoked, regLast, regOrder>>
httpVars == <<routes, middlewares, req, routeLog, reqPrev>>
overlapVars == <<parked, issued>>
vars     == <<lifeVars, regVars, httpVars, overlapVars>>

----------------------------------------------------------------------------
(* Lifecycle units *)

Engines == {"A", "B", "C"}
Units   == {"flow"} \cup Engines

None == "none"

(* Registry inputs *)
Names      == {"a", "b", "c"}
(* the names instances and factories are registered under *)
Registrable == {"a", "b"}
(* the names aliases are registered under: "b" may so be an alias and hold
   an instance or a factory at once *)
Aliasable   == {"b", "c"}
(* A name holds at most one factory, ever (setFactory refuses a name that
   has one and nothing removes it): a factory is identified by the name it
   is registered under. *)
FactoryIds == Names
Tags       == {"t", "u"}
TagLists   == {<<>>, <<"t">>, <<"t", "u">>}

(* how often one factory may be invoked in a run of the model *)
MaxInvocations == 2

(* how many registrations (set, setFactory, setAlias) may succeed in a run *)
MaxRegistrations == 3

(* Listener inputs *)
(* the listener functions: "f" returns, "g" throws *)
ListenerFns == {[id |-> "f", throws |-> FALSE], [id |-> "g", throws |-> TRUE]}
(* the events listeners are registered for on an engine's own bus and on the
   Flow's bus (an engine's event arrives there under the prefix "engine.") *)
EngineEvents == {<<"engine", "before_init">>, <<"engine", "after_init">>,
                 <<"engine", "before_stop">>}
FlowEvents   == {<<"flow", "before_start">>, <<"flow", "after_init">>,
                 <<"engine", "engine", "before_init">>}

(* how many listeners on() may register in a run of the model *)
MaxListeners == 2

(* how many lifecycle calls overlap: the first one and those made before
   the last of them has returned *)
MaxOverlap == 2

(* HTTP inputs *)
(* the methods addRoute is called with, and the methods of requests (the
   HTTP parser hands them over in upper case) *)
RouteMethods   == {"get", "POST"}
RequestMethods == {"GET", "POST"}
RoutePaths     == {"/foo", "/foo/"}
(* request targets, as <<pathname, query string>> *)
RequestUrls    == {<<"/foo", "">>, <<"/foo/", "">>, <<"/foo", "?x=1">>}
ContentTypes   == {"application/json; charset=utf-8", "text/plain"}
(* request bodies as the chunks they arrive in; a chunk is a sequence of
   characters *)
Bodies == {<<>>, << <<"{">>, <<"}">> >>, << <<"{">> >>}
(* what a middleware invocation may do: return undefined, return false
   after answering, throw, or call its second argument *)
MiddlewareOutcomes == {"pass", "stop", "throw", "next"}
(* what a handler invocation may do: answer, throw, or answer and throw *)
HandlerOutcomes == {"respond", "throw", "respondThrow"}

(* how many middlewares use() may add and how many routes addRoute() may
   add in a run of the model *)
MaxMiddlewares == 3
MaxRoutes == 2

(* res before anything is written: statusCode 200, end() not called, nothing
   on the wire *)
NoResponse == [statusCode |-> 200, ends |-> 0, wire |-> <<0, "">>]

(* no _handleRequest activation *)
NoRequest ==
  [pc |-> "idle", method |-> None, url |-> <<"", "">>, ctype |-> None,
   incoming |-> <<>>, chunks |-> <<>>, routeKey |-> <<None, "">>, i |-> 0,
   handler |-> 0,
   ctx |-> [path |-> "", method |-> None, body |-> <<"null">>, marks |-> <<>>],
   res |-> NoResponse, ran |-> <<>>, out |-> None]

RECURSIVE Reverse(_)
Reverse(s) == IF s = <<>> THEN <<>> ELSE Append(Reverse(Tail(s)), Head(s))

Range(s) == {s[k] : k \in 1..Len(s)}

Flags == [init |-> initialized, started |-> started]

(* Call frames.  A frame is one activation of an async lifecycle method:
   cls/op/u name the method and its receiver, pc the await it is at, i the
   position of a Flow loop, snap the array Flow.stop iterates. *)
Frame(op, u) ==
  [cls |-> IF u = "flow" THEN "Flow" ELSE "Engine",
   op |-> op, u |-> u, pc |-> "enter", i |-> 0, snap |-> <<>>]

Top == stack[Len(stack)]

At(cls, op, pc) ==
  /\ stack # <<>>
  /\ Top.cls = cls
  /\ Top.op = op
  /\ Top.pc = pc

(* Log entries are <<kind, unit, what, payload>>. *)
HookEntry(e, phase, what) == <<"hook", e, <<phase, what>>, e>>
EmitEntry(bus, ev, payload) == <<"emit", bus, ev, payload>>
ListenerEntry(bus, ev, id) == <<"listener", bus, ev, id>>

(* The listener loop of emit: the listeners of (bus, ev) in registration
   order; a listener that throws ends the loop, emit does not catch it. *)
RECURSIVE RunListeners(_, _, _, _)
RunListeners(regs, bus, ev, lg) ==
  IF regs = <<>> THEN [log |-> lg, threw |-> FALSE]
  ELSE LET r == Head(regs) IN
       IF r.bus = bus /\ r.event = ev
       THEN IF r.throws
            THEN [log |-> Append(lg, ListenerEntry(bus, ev, r.id)), threw |-> TRUE]
            ELSE RunListeners(Tail(regs), bus, ev,
                              Append(lg, ListenerEntry(bus, ev, r.id)))
       ELSE RunListeners(Tail(regs), bus, ev, lg)

Flow_emit(ev, payload, lg) ==
  RunListeners(listeners, "flow", ev, Append(lg, EmitEntry("flow", ev, payload)))

(* mutant: the Flow's listeners are called before the engine's own *)
Engine_emit_flowFirst(e, ev, lg) ==
  LET up == IF flowOf[e] THEN Flow_emit(<<"engine">> \o ev, e, lg)
            ELSE [log |-> lg, threw |-> FALSE]
  IN  IF up.threw THEN up
      ELSE RunListeners(listeners, e, ev, Append(up.log, EmitEntry(e, ev, e)))

Engine_emit(e, ev, lg) ==
  LET own == RunListeners(listeners, e, ev, Append(lg, EmitEntry(e, ev, e)))
  IN  IF own.threw THEN own
      ELSE IF flowOf[e] THEN Flow_emit(<<"engine">> \o ev, e, own.log)
      ELSE own

(* The event names of a phase. *)
Before(phase) ==
  CASE phase = "init" -> "before_init"
    [] phase = "start" -> "before_start"
    [] phase = "stop" -> "before_stop"

After(phase) ==
  CASE phase = "init" -> "after_init"
    [] phase = "start" -> "after_start"
    [] phase = "stop" -> "after_stop"

(* How a step leaves the frame on top. *)
Finish(lg) ==
  /\ stack' = SubSeq(stack, 1, Len(stack) - 1)
  /\ log' = lg
  /\ cur' = IF Len(stack) = 1 THEN [cur EXCEPT !.res = "ok"] ELSE cur
  /\ unwound' = unwound

Raise(lg) ==
  /\ stack' = <<>>
  /\ log' = lg
  /\ cur' = [cur EXCEPT !.res = "error"]
  /\ unwound' = stack

Goto(f, lg) ==
  /\ stack' = [stack EXCEPT ![Len(stack)] = f]
  /\ log' = lg
  /\ UNCHANGED <<cur, unwound>>

Await(f, callee, lg) ==
  /\ stack' = Append([stack EXCEPT ![Len(stack)] = f], callee)
  /\ log' = lg
  /\ UNCHANGED <<cur, unwound>>

(* mutant: a listener's exception is swallowed and the hook is entered *)
EnterHook_swallow(e, phase, lg) ==
  Goto([Top EXCEPT !.pc = "hook"],
       Append(Engine_emit(e, <<"engine", Before(phase)>>, lg).log,
              HookEntry(e, phase, "begin")))

(* before_<phase>, then the hook is entered *)
EnterHook(e, phase, lg) ==
  LET em == Engine_emit(e, <<"engine", Before(phase)>>, lg)
  IN  IF em.threw THEN Raise(em.log)
      ELSE Goto([Top EXCEPT !.pc = "hook"],
                Append(em.log, HookEntry(e, phase, "begin")))

(* the hook has resolved: after_<phase>, return *)
LeaveHook(e, phase, lg) ==
  LET em == Engine_emit(e, <<"engine", After(phase)>>,
                        Append(lg, HookEntry(e, phase, "end")))
  IN  IF em.threw THEN Raise(em.log) ELSE Finish(em.log)

----------------------------------------------------------------------------
(* Engine *)

Engine_setFlow(e) == [flowOf EXCEPT ![e] = TRUE]

Engine_init_enter ==
  /\ At("Engine", "init", "enter")
  /\ IF initialized[Top.u] THEN Finish(log)
     ELSE EnterHook(Top.u, "init", log)
  /\ UNCHANGED <<engines, flowOf, initialized, started, listeners,
                 prev, callPre, loopPre>>

(* mutant: this.initialized = true set before the hook is awaited *)
Engine_init_hook_flagFirst(ok) ==
  /\ At("Engine", "init", "hook")
  /\ initialized' = [initialized EXCEPT ![Top.u] = TRUE]
  /\ IF ok
     THEN LeaveHook(Top.u, "init", log)
     ELSE Raise(Append(log, HookEntry(Top.u, "init", "fail")))
  /\ UNCHANGED <<engines, flowOf, started, listeners,
                 prev, callPre, loopPre>>

Engine_init_hook(ok) ==
  /\ At("Engine", "init", "hook")
  /\ IF ok
     THEN /\ initialized' = [initialized EXCEPT ![Top.u] = TRUE]
          /\ LeaveHook(Top.u, "init", log)
     ELSE /\ Raise(Append(log, HookEntry(Top.u, "init", "fail")))
          /\ UNCHANGED initialized
  /\ UNCHANGED <<engines, flowOf, started, listeners,
                 prev, callPre, loopPre>>

Engine_init(ok) == Engine_init_enter \/ Engine_init_hook(ok)

(* mutant: start() that returns when another start() of the unit is awaiting
   the hook *)
Engine_start_rest_serial ==
  IF started[Top.u]
       \/ \E k \in 1..Len(parked) :
             LET f == parked[k].stack[Len(parked[k].stack)]
             IN  f.op = "start" /\ f.u = Top.u /\ f.pc = "hook"
  THEN Finish(log)
  ELSE EnterHook(Top.u, "start", log)

(* mutant: start() without the `if (this.started)` guard *)
Engine_start_rest_unguarded == EnterHook(Top.u, "start", log)

(* Engine.start from `if (this.started)` on *)
Engine_start_rest ==
  IF started[Top.u] THEN Finish(log)
  ELSE EnterHook(Top.u, "start", log)

(* mutant: start() that does not call init() *)
Engine_start_enter_noInit ==
  /\ At("Engine", "start", "enter")
  /\ Engine_start_rest
  /\ UNCHANGED <<engines, flowOf, initialized, started, listeners,
                 prev, callPre, loopPre>>

Engine_start_enter ==
  /\ At("Engine", "start", "enter")
  /\ IF ~initialized[Top.u]
     THEN Await([Top EXCEPT !.pc = "inited"], Frame("init", Top.u), log)
     ELSE Engine_start_rest
  /\ UNCHANGED <<engines, flowOf, initialized, started, listeners,
                 prev, callPre, loopPre>>

Engine_start_inited ==
  /\ At("Engine", "start", "inited")
  /\ Engine_start_rest
  /\ UNCHANGED <<engines, flowOf, initialized, started, listeners,
                 prev, callPre, loopPre>>

Engine_start_hook(ok) ==
  /\ At("Engine", "start", "hook")
  /\ IF ok
     THEN /\ started' = [started EXCEPT ![Top.u] = TRUE]
          /\ LeaveHook(Top.u, "start", log)
     ELSE /\ Raise(Append(log, HookEntry(Top.u, "start", "fail")))
          /\ UNCHANGED started
  /\ UNCHANGED <<engines, flowOf, initialized, listeners,
                 prev, callPre, loopPre>>

Engine_start(ok) ==
  Engine_start_enter \/ Engine_start_inited \/ Engine_start_hook(ok)

Engine_stop_enter ==
  /\ At("Engine", "stop", "enter")
  /\ IF ~started[Top.u] THEN Finish(log)
     ELSE EnterHook(Top.u, "stop", log)
  /\ UNCHANGED <<engines, flowOf, initialized, started, listeners,
                 prev, callPre, loopPre>>

(* mutant: this.started = false set before the hook is awaited *)
Engine_stop_hook_flagFirst(ok) ==
  /\ At("Engine", "stop", "hook")
  /\ started' = [started EXCEPT ![Top.u] = FALSE]
  /\ IF ok
     THEN LeaveHook(Top.u, "stop", log)
     ELSE Raise(Append(log, HookEntry(Top.u, "stop", "fail")))
  /\ UNCHANGED <<engines, flowOf, initialized, listeners,
                 prev, callPre, loopPre>>

Engine_stop_hook(ok) ==
  /\ At("Engine", "stop", "hook")
  /\ IF ok
     THEN /\ started' = [started EXCEPT ![Top.u] = FALSE]
          /\ LeaveHook(Top.u, "stop", log)
     ELSE /\ Raise(Append(log, HookEntry(Top.u, "stop", "fail")))
          /\ UNCHANGED started
  /\ UNCHANGED <<engines, flowOf, initialized, listeners,
                 prev, callPre, loopPre>>

Engine_stop(ok) == Engine_stop_enter \/ Engine_stop_hook(ok)


----------------------------------------------------------------------------
(* Flow *)

(* emit flow.before_<phase>, then enter the engine loop *)
EnterLoop(phase, order, lg) ==
  LET em == Flow_emit(<<"flow", Before(phase)>>, "flow", lg)
  IN  IF em.threw
      THEN Raise(em.log) /\ UNCHANGED loopPre
      ELSE /\ Goto([Top EXCEPT !.pc = "loop", !.i = 1, !.snap = order], em.log)
           /\ loopPre' = Flags

(* the loop is over: emit flow.after_<phase>, return *)
LeaveLoop(phase, lg) ==
  LET em == Flow_emit(<<"flow", After(phase)>>, "flow", lg)
  IN  IF em.threw THEN Raise(em.log) ELSE Finish(em.log)

Flow_init_enter ==
  /\ At("Flow", "init", "enter")
  /\ IF initialized["flow"]
     THEN Finish(log) /\ UNCHANGED loopPre
     ELSE EnterLoop("init", <<>>, log)
  /\ UNCHANGED <<engines, flowOf, initialized, started, listeners,
                 prev, callPre>>

(* for (const [name, engine] of this.engines.entries()): the Map is read
   at every iteration *)
Flow_init_loop ==
  /\ At("Flow", "init", "loop")
  /\ IF Top.i <= Len(engines)
     THEN /\ Await([Top EXCEPT !.i = Top.i + 1],
                   Frame("init", engines[Top.i]), log)
          /\ UNCHANGED initialized
     ELSE /\ initialized' = [initialized EXCEPT !["flow"] = TRUE]
          /\ LeaveLoop("init", log)
  /\ UNCHANGED <<engines, flowOf, started, listeners,
                 prev, callPre, loopPre>>

Flow_init == Flow_init_enter \/ Flow_init_loop

(* Flow.start from `if (this.started)` on *)
Flow_start_rest ==
  IF started["flow"]
  THEN Finish(log) /\ UNCHANGED loopPre
  ELSE EnterLoop("start", <<>>, log)

Flow_start_enter ==
  /\ At("Flow", "start", "enter")
  /\ IF ~initialized["flow"]
     THEN /\ Await([Top EXCEPT !.pc = "inited"], Frame("init", "flow"), log)
          /\ UNCHANGED loopPre
     ELSE Flow_start_rest
  /\ UNCHANGED <<engines, flowOf, initialized, started, listeners,
                 prev, callPre>>

Flow_start_inited ==
  /\ At("Flow", "start", "inited")
  /\ Flow_start_rest
  /\ UNCHANGED <<engines, flowOf, initialized, started, listeners,
                 prev, callPre>>

(* mutant: this.started = true set before the engines are started *)
Flow_start_loop_flagFirst ==
  /\ At("Flow", "start", "loop")
  /\ started' = [started EXCEPT !["flow"] = TRUE]
  /\ IF Top.i <= Len(engines)
     THEN Await([Top EXCEPT !.i = Top.i + 1],
                Frame("start", engines[Top.i]), log)
     ELSE LeaveLoop("start", log)
  /\ UNCHANGED <<engines, flowOf, initialized, listeners,
                 prev, callPre, loopPre>>

Flow_start_loop ==
  /\ At("Flow", "start", "loop")
  /\ IF Top.i <= Len(engines)
     THEN /\ Await([Top EXCEPT !.i = Top.i + 1],
                   Frame("start", engines[Top.i]), log)
          /\ UNCHANGED started
     ELSE /\ started' = [started EXCEPT !["flow"] = TRUE]
          /\ LeaveLoop("start", log)
  /\ UNCHANGED <<engines, flowOf, initialized, listeners,
                 prev, callPre, loopPre>>

Flow_start == Flow_start_enter \/ Flow_start_inited \/ Flow_start_loop

(* mutant: Flow.stop iterating in registration order *)
Flow_stop_enter_forward ==
  /\ At("Flow", "stop", "enter")
  /\ IF ~started["flow"]
     THEN Finish(log) /\ UNCHANGED loopPre
     ELSE EnterLoop("stop", engines, log)
  /\ UNCHANGED <<engines, flowOf, initialized, started, listeners,
                 prev, callPre>>

(* const engineEntries = [...this.engines.entries()].reverse(): the array
   is taken once, before the loop *)
Flow_stop_enter ==
  /\ At("Flow", "stop", "enter")
  /\ IF ~started["flow"]
     THEN Finish(log) /\ UNCHANGED loopPre
     ELSE EnterLoop("stop", Reverse(engines), log)
  /\ UNCHANGED <<engines, flowOf, initialized, started, listeners,
                 prev, callPre>>

Flow_stop_loop ==
  /\ At("Flow", "stop", "loop")
  /\ IF Top.i <= Len(Top.snap)
     THEN /\ Await([Top EXCEPT !.i = Top.i + 1],
                   Frame("stop", Top.snap[Top.i]), log)
          /\ UNCHANGED started
     ELSE /\ started' = [started EXCEPT !["flow"] = FALSE]
          /\ LeaveLoop("stop", log)
  /\ UNCHANGED <<engines, flowOf, initialized, listeners,
                 prev, callPre, loopPre>>

Flow_stop == Flow_stop_enter \/ Flow_stop_loop

(* registerEngine(name, engine): the engine is registered under its own
   name; a name already in the Map throws and changes nothing *)
Flow_registerEngine(e) ==
  /\ stack = <<>>
  /\ prev' = None
  /\ log' = <<>>
  /\ callPre' = Flags
  /\ loopPre' = Flags
  /\ unwound' = <<>>
  /\ IF e \in Range(engines)
     THEN /\ cur' = [op |-> "registerEngine", u |-> e, res |-> "error"]
          /\ UNCHANGED <<engines, flowOf>>
     ELSE /\ cur' = [op |-> "registerEngine", u |-> e, res |-> "ok"]
          /\ flowOf' = Engine_setFlow(e)
          /\ engines' = Append(engines, e)
  /\ UNCHANGED <<initialized, started, listeners, stack>>

(* The owning process calls init(), start() or stop() on a unit; calls are
   made one after the other (spec section 5). *)
Call(op, u) ==
  /\ stack = <<>>
  /\ stack' = <<Frame(op, u)>>
  /\ log' = <<>>
  /\ prev' = IF cur.u = u /\ cur.op = op THEN cur.res
             ELSE IF cur.u = u /\ cur.op = "stop" /\ cur.res = "ok"
                     /\ callPre.started[u]
             THEN "stopped"
             ELSE None
  /\ cur' = [op |-> op, u |-> u, res |-> "running"]
  /\ callPre' = Flags
  /\ loopPre' = Flags
  /\ unwound' = <<>>
  /\ UNCHANGED <<engines, flowOf, initialized, started, listeners>>

(* on(event, listener), of the Flow and of an engine: appends, whatever is
   registered already *)
On(bus, event, fn) ==
  /\ stack = <<>>
  /\ Len(listeners) < MaxListeners
  /\ listeners' = Append(listeners, [bus |-> bus, event |-> event,
                                     id |-> fn.id, throws |-> fn.throws])
  /\ cur' = [op |-> "on", u |-> bus, res |-> "ok"]
  /\ prev' = None
  /\ log' = <<>>
  /\ callPre' = Flags
  /\ loopPre' = Flags
  /\ unwound' = <<>>
  /\ UNCHANGED <<engines, flowOf, initialized, started, stack>>

Flow_on(event, fn) == On("flow", event, fn)

Engine_on(e, event, fn) == On(e, event, fn)

Init ==
  /\ engines = <<>>
  /\ flowOf = [e \in Engines |-> FALSE]
  /\ initialized = [u \in Units |-> FALSE]
  /\ started = [u \in Units |-> FALSE]
  /\ listeners = <<>>
  /\ stack = <<>>
  /\ log = <<>>
  /\ cur = [op |-> None, u |-> None, res |-> None]
  /\ prev = None
  /\ callPre = [init |-> [u \in Units |-> FALSE], started |-> [u \in Units |-> FALSE]]
  /\ loopPre = [init |-> [u \in Units |-> FALSE], started |-> [u \in Units |-> FALSE]]
  /\ unwound = <<>>
  /\ services = <<>>
  /\ factories = <<>>
  /\ aliases = <<>>
  /\ tags = <<>>
  /\ invoked = [f \in FactoryIds |-> 0]
  /\ regLast = [op |-> None, name |-> None, res |-> None]
  /\ regOrder = <<>>
  /\ routes = <<>>
  /\ middlewares = <<>>
  /\ req = NoRequest
  /\ routeLog = <<>>
  /\ reqPrev = None
  /\ parked = <<>>
  /\ issued = 0

(* the lifecycle operations leave the registry and the HTTP state alone *)
NextLife ==
  \/ \E op \in {"init", "start", "stop"}, u \in Units :
        Call(op, u) /\ UNCHANGED <<regVars, httpVars, overlapVars>>
  \/ \E e \in Engines : Flow_registerEngine(e) /\ UNCHANGED <<regVars, httpVars, overlapVars>>
  \/ \E ok \in BOOLEAN : Engine_init(ok) /\ UNCHANGED <<regVars, httpVars, overlapVars>>
  \/ \E ok \in BOOLEAN : Engine_start(ok) /\ UNCHANGED <<regVars, httpVars, overlapVars>>
  \/ \E ok \in BOOLEAN : Engine_stop(ok) /\ UNCHANGED <<regVars, httpVars, overlapVars>>
  \/ Flow_init /\ UNCHANGED <<regVars, httpVars, overlapVars>>
  \/ Flow_start /\ UNCHANGED <<regVars, httpVars, overlapVars>>
  \/ Flow_stop /\ UNCHANGED <<regVars, httpVars, overlapVars>>

SpecLifecycle == Init /\ [][NextLife]_vars

(* The Flow driven through its own methods only: engines are registered and
   init(), start() and stop() are called on the Flow, one call after the
   other; the engines' methods are called by the Flow's loops alone. *)
NextContainer ==
  \/ \E op \in {"init", "start", "stop"} :
        Call(op, "flow") /\ UNCHANGED <<regVars, httpVars, overlapVars>>
  \/ \E e \in Engines : Flow_registerEngine(e) /\ UNCHANGED <<regVars, httpVars, overlapVars>>
  \/ \E ok \in BOOLEAN : Engine_init(ok) /\ UNCHANGED <<regVars, httpVars, overlapVars>>
  \/ \E ok \in BOOLEAN : Engine_start(ok) /\ UNCHANGED <<regVars, httpVars, overlapVars>>
  \/ \E ok \in BOOLEAN : Engine_stop(ok) /\ UNCHANGED <<regVars, httpVars, overlapVars>>
  \/ Flow_init /\ UNCHANGED <<regVars, httpVars, overlapVars>>
  \/ Flow_start /\ UNCHANGED <<regVars, httpVars, overlapVars>>
  \/ Flow_stop /\ UNCHANGED <<regVars, httpVars, overlapVars>>

SpecContainer == Init /\ [][NextContainer]_vars

(* The Flow with the engine "A", attached or not, and listeners. *)
NextEvents ==
  \/ \E op \in {"init", "start", "stop"}, u \in {"flow", "A"} :
        Call(op, u) /\ UNCHANGED <<regVars, httpVars, overlapVars>>
  \/ Flow_registerEngine("A") /\ UNCHANGED <<regVars, httpVars, overlapVars>>
  \/ \E event \in FlowEvents, fn \in ListenerFns :
        Flow_on(event, fn) /\ UNCHANGED <<regVars, httpVars, overlapVars>>
  \/ \E event \in EngineEvents, fn \in ListenerFns :
        Engine_on("A", event, fn) /\ UNCHANGED <<regVars, httpVars, overlapVars>>
  \/ \E ok \in BOOLEAN : Engine_init(ok) /\ UNCHANGED <<regVars, httpVars, overlapVars>>
  \/ \E ok \in BOOLEAN : Engine_start(ok) /\ UNCHANGED <<regVars, httpVars, overlapVars>>
  \/ \E ok \in BOOLEAN : Engine_stop(ok) /\ UNCHANGED <<regVars, httpVars, overlapVars>>
  \/ Flow_init /\ UNCHANGED <<regVars, httpVars, overlapVars>>
  \/ Flow_start /\ UNCHANGED <<regVars, httpVars, overlapVars>>
  \/ Flow_stop /\ UNCHANGED <<regVars, httpVars, overlapVars>>

SpecEvents == Init /\ [][NextEvents]_vars

----------------------------------------------------------------------------
(* Overlapping calls.  A lifecycle method is an async function: it runs to
   its first await and returns a promise, and the caller is free to make
   another call before that promise settles.  The call that is running is
   <<stack, cur>>; the others wait in parked. *)

(* a second call is made while the running one awaits its hook *)
Overlap_call(op, u) ==
  /\ stack # <<>>
  /\ Top.pc = "hook"
  /\ issued + 1 < MaxOverlap
  /\ issued' = issued + 1
  /\ parked' = Append(parked, [stack |-> stack, cur |-> cur])
  /\ stack' = <<Frame(op, u)>>
  /\ cur' = [op |-> op, u |-> u, res |-> "running"]
  /\ UNCHANGED <<engines, flowOf, initialized, started, listeners,
                 log, prev, callPre, loopPre, unwound>>

(* the promise a suspended call awaits settles: that call goes on, and the
   running one, if it has not returned, waits *)
Overlap_resume(k) ==
  /\ k \in 1..Len(parked)
  /\ IF stack = <<>> THEN TRUE ELSE Top.pc = "hook"
  /\ stack' = parked[k].stack
  /\ cur' = parked[k].cur
  /\ parked' = IF stack = <<>>
               THEN SubSeq(parked, 1, k - 1) \o SubSeq(parked, k + 1, Len(parked))
               ELSE [parked EXCEPT ![k] = [stack |-> stack, cur |-> cur]]
  /\ UNCHANGED issued
  /\ UNCHANGED <<engines, flowOf, initialized, started, listeners,
                 log, prev, callPre, loopPre, unwound>>

NextOverlap ==
  \/ \E op \in {"init", "start", "stop"}, u \in {"flow", "A"} :
        /\ parked = <<>>
        /\ Call(op, u)
        /\ issued' = 0
        /\ UNCHANGED <<regVars, httpVars, parked>>
  \/ /\ parked = <<>>
     /\ Flow_registerEngine("A")
     /\ UNCHANGED <<regVars, httpVars, overlapVars>>
  \/ \E op \in {"init", "start", "stop"}, u \in {"flow", "A"} :
        Overlap_call(op, u) /\ UNCHANGED <<regVars, httpVars>>
  \/ \E k \in 1..MaxOverlap :
        Overlap_resume(k) /\ UNCHANGED <<regVars, httpVars>>
  \/ \E ok \in BOOLEAN : Engine_init(ok) /\ UNCHANGED <<regVars, httpVars, overlapVars>>
  \/ \E ok \in BOOLEAN : Engine_start(ok) /\ UNCHANGED <<regVars, httpVars, overlapVars>>
  \/ \E ok \in BOOLEAN : Engine_stop(ok) /\ UNCHANGED <<regVars, httpVars, overlapVars>>
  \/ Flow_init /\ UNCHANGED <<regVars, httpVars, overlapVars>>
  \/ Flow_start /\ UNCHANGED <<regVars, httpVars, overlapVars>>
  \/ Flow_stop /\ UNCHANGED <<regVars, httpVars, overlapVars>>

SpecOverlap == Init /\ [][NextOverlap]_vars

----------------------------------------------------------------------------
(* ServiceManager *)

(* Values are <<kind, id, n, args>>.  The n-th object a caller hands to
   set() under a name is <<"v", name, n, <<>>>>; what the n-th invocation of
   factory f returned when called with args is <<"p", f, n, args>>: every
   object is a fresh one. *)
Instance(name, n) == <<"v", name, n, <<>>>>
Product(f, n, args) == <<"p", f, n, args>>
NoValue == <<"none", "none", 0, <<>>>>

(* The registry as one value, for the methods that thread it through. *)
Registry ==
  [services |-> services, factories |-> factories, aliases |-> aliases,
   tags |-> tags, invoked |-> invoked]

Has(map, key) == key \in DOMAIN map
Put(map, key, val) == [k \in DOMAIN map \cup {key} |-> IF k = key THEN val ELSE map[k]]

(* _registerTags(serviceName, tags) *)
RECURSIVE ServiceManager_registerTags(_, _, _)
ServiceManager_registerTags(R, serviceName, tl) ==
  IF tl = <<>> THEN R
  ELSE LET tag == Head(tl)
           old == IF Has(R.tags, tag) THEN R.tags[tag] ELSE <<>>
       IN  ServiceManager_registerTags(
             [R EXCEPT !.tags = Put(R.tags, tag, Append(old, serviceName))],
             serviceName, Tail(tl))

(* mutant: the tags are indexed before the duplicate check *)
ServiceManager_set_tagsFirst(R, name, service, tl) ==
  IF Has(R.services, name)
  THEN [R |-> ServiceManager_registerTags(R, name, tl), res |-> "error"]
  ELSE LET R1 == [R EXCEPT !.services = Put(R.services, name, service)]
       IN  [R |-> ServiceManager_registerTags(R1, name, tl), res |-> "ok"]

(* set(name, service, tags) *)
ServiceManager_set(R, name, service, tl) ==
  IF Has(R.services, name)
  THEN [R |-> R, res |-> "error"]
  ELSE LET R1 == [R EXCEPT !.services = Put(R.services, name, service)]
       IN  [R |-> IF Len(tl) > 0 THEN ServiceManager_registerTags(R1, name, tl) ELSE R1,
            res |-> "ok"]

(* setFactory(name, factory, tags) *)
ServiceManager_setFactory(R, name, factory, tl) ==
  IF Has(R.factories, name) \/ Has(R.services, name)
  THEN [R |-> R, res |-> "error"]
  ELSE LET R1 == [R EXCEPT !.factories = Put(R.factories, name, factory)]
       IN  [R |-> IF Len(tl) > 0 THEN ServiceManager_registerTags(R1, name, tl) ELSE R1,
            res |-> "ok"]

(* setAlias(alias, target) *)
ServiceManager_setAlias(R, alias, target) ==
  IF Has(R.aliases, alias)
  THEN [R |-> R, res |-> "error"]
  ELSE [R |-> [R EXCEPT !.aliases = Put(R.aliases, alias, target)], res |-> "ok"]

(* factory(this): the factories in `bad` throw, the others return a fresh
   object *)
InvokeFactory(R, f, args, bad) ==
  LET n == R.invoked[f] + 1
  IN  [R |-> [R EXCEPT !.invoked[f] = n],
       res |-> IF f \in bad THEN "threw" ELSE "ok",
       val |-> IF f \in bad THEN NoValue ELSE Product(f, n, args)]

(* mutant: get() looking at the instances before the aliases *)
RECURSIVE ServiceManager_getRec_servicesFirst(_, _, _, _)
ServiceManager_getRec_servicesFirst(R, name, bad, seen) ==
  IF Has(R.services, name)
  THEN [R |-> R, res |-> "ok", val |-> R.services[name]]
  ELSE IF Has(R.aliases, name)
  THEN IF name \in seen
       THEN [R |-> R, res |-> "overflow", val |-> NoValue]
       ELSE ServiceManager_getRec_servicesFirst(R, R.aliases[name], bad,
                                                seen \cup {name})
  ELSE IF Has(R.factories, name)
  THEN LET made == InvokeFactory(R, R.factories[name], <<"this">>, bad)
       IN  IF made.res = "ok"
           THEN [R |-> [made.R EXCEPT !.services = Put(made.R.services, name, made.val)],
                 res |-> "ok", val |-> made.val]
           ELSE made
  ELSE [R |-> R, res |-> "notfound", val |-> NoValue]

(* mutant: get() returning what the factory made without caching it *)
RECURSIVE ServiceManager_getRec_noCache(_, _, _, _)
ServiceManager_getRec_noCache(R, name, bad, seen) ==
  IF Has(R.aliases, name)
  THEN IF name \in seen
       THEN [R |-> R, res |-> "overflow", val |-> NoValue]
       ELSE ServiceManager_getRec_noCache(R, R.aliases[name], bad, seen \cup {name})
  ELSE IF Has(R.services, name)
  THEN [R |-> R, res |-> "ok", val |-> R.services[name]]
  ELSE IF Has(R.factories, name)
  THEN InvokeFactory(R, R.factories[name], <<"this">>, bad)
  ELSE [R |-> R, res |-> "notfound", val |-> NoValue]

(* get(name).  `seen` holds the aliases the recursion has passed: an alias
   met again means the recursion never ends, and the call stack overflows
   (a RangeError the caller gets). *)
RECURSIVE ServiceManager_getRec(_, _, _, _)
ServiceManager_getRec(R, name, bad, seen) ==
  IF Has(R.aliases, name)
  THEN IF name \in seen
       THEN [R |-> R, res |-> "overflow", val |-> NoValue]
       ELSE ServiceManager_getRec(R, R.aliases[name], bad, seen \cup {name})
  ELSE IF Has(R.services, name)
  THEN [R |-> R, res |-> "ok", val |-> R.services[name]]
  ELSE IF Has(R.factories, name)
  THEN LET made == InvokeFactory(R, R.factories[name], <<"this">>, bad)
       IN  IF made.res = "ok"
           THEN [R |-> [made.R EXCEPT !.services = Put(made.R.services, name, made.val)],
                 res |-> "ok", val |-> made.val]
           ELSE made
  ELSE [R |-> R, res |-> "notfound", val |-> NoValue]

ServiceManager_get(R, name, bad) == ServiceManager_getRec(R, name, bad, {})

(* this.tags.get(tag).map(name => this.get(name)): the first get that
   throws ends the call *)
RECURSIVE MapGet(_, _, _, _)
MapGet(R, names, bad, acc) ==
  IF names = <<>> THEN [R |-> R, res |-> "ok", val |-> acc]
  ELSE LET one == ServiceManager_get(R, Head(names), bad)
       IN  IF one.res = "ok"
           THEN MapGet(one.R, Tail(names), bad, Append(acc, one.val))
           ELSE [R |-> one.R, res |-> one.res, val |-> <<>>]

(* getByTag(tag) *)
ServiceManager_getByTag(R, tag, bad) ==
  IF ~Has(R.tags, tag)
  THEN [R |-> R, res |-> "ok", val |-> <<>>]
  ELSE MapGet(R, R.tags[tag], bad, <<>>)

(* A call of the registry: the registry it leaves and how it ended. *)
Leaves(r, op, name) ==
  /\ services' = r.R.services
  /\ factories' = r.R.factories
  /\ aliases' = r.R.aliases
  /\ tags' = r.R.tags
  /\ invoked' = r.R.invoked
  /\ regLast' = [op |-> op, name |-> name, res |-> r.res]

Registered(r, name, tl) ==
  regOrder' = IF r.res = "ok"
              THEN regOrder \o [k \in 1..Len(tl) |-> <<name, tl[k]>>]
              ELSE regOrder

Within(r) == \A f \in FactoryIds : r.R.invoked[f] <= MaxInvocations

(* the registrations that have succeeded: the aliases, the factories and
   the instances set() stored *)
Registrations ==
  Cardinality(DOMAIN aliases) + Cardinality(DOMAIN factories)
    + Cardinality({n \in DOMAIN services : services[n][1] = "v"})

Room(r) == r.res = "ok" => Registrations < MaxRegistrations

(* the object a caller passes to set(): a new one, not the one the name
   holds *)
Fresh(name) ==
  IF Has(services, name) /\ services[name][1] = "v"
  THEN Instance(name, services[name][3] + 1)
  ELSE Instance(name, 1)

SetCall(name, tl) ==
  LET r == ServiceManager_set(Registry, name, Fresh(name), tl)
  IN  Room(r) /\ Leaves(r, "set", name) /\ Registered(r, name, tl)

SetFactoryCall(name, tl) ==
  LET r == ServiceManager_setFactory(Registry, name, name, tl)
  IN  Room(r) /\ Leaves(r, "setFactory", name) /\ Registered(r, name, tl)

SetAliasCall(alias, target) ==
  LET r == ServiceManager_setAlias(Registry, alias, target)
  IN  Room(r) /\ Leaves(r, "setAlias", alias) /\ UNCHANGED regOrder

GetCall(name, bad) ==
  LET r == ServiceManager_get(Registry, name, bad)
  IN  Within(r) /\ Leaves(r, "get", name) /\ UNCHANGED regOrder

GetByTagCall(tag, bad) ==
  LET r == ServiceManager_getByTag(Registry, tag, bad)
  IN  Within(r) /\ Leaves(r, "getByTag", tag) /\ UNCHANGED regOrder

(* the factories a call can still invoke: those whose name holds no instance *)
Pending == DOMAIN factories \ DOMAIN services

(* which factory throws in a call: a call ends at the first throw, so one
   throwing factory at most decides it *)
Throwing == {{}} \cup {{f} : f \in Pending}

NextReg ==
  \/ \E name \in Registrable, tl \in TagLists :
        SetCall(name, tl) /\ UNCHANGED <<lifeVars, httpVars, overlapVars>>
  \/ \E name \in Registrable, tl \in TagLists :
        SetFactoryCall(name, tl) /\ UNCHANGED <<lifeVars, httpVars, overlapVars>>
  \/ \E alias \in Aliasable, target \in Names :
        SetAliasCall(alias, target) /\ UNCHANGED <<lifeVars, httpVars, overlapVars>>
  \/ \E name \in Names, bad \in Throwing :
        GetCall(name, bad) /\ UNCHANGED <<lifeVars, httpVars, overlapVars>>
  \/ \E tag \in Tags, bad \in Throwing :
        GetByTagCall(tag, bad) /\ UNCHANGED <<lifeVars, httpVars, overlapVars>>

SpecRegistry == Init /\ [][NextReg]_vars

----------------------------------------------------------------------------
(* HttpEngine *)

(* method.toUpperCase() *)
ToUpperCase(method) == IF method = "get" THEN "GET" ELSE method

(* `${method}:${path}` *)
RouteKey(method, path) == <<method, path>>

(* mutant: a pathname without its trailing slash *)
Pathname_trimmed(url) == IF url[1] = "/foo/" THEN "/foo" ELSE url[1]

(* url.parse(req.url, true).pathname *)
Pathname(url) == url[1]

(* Buffer.concat(chunks).toString() *)
RECURSIVE Concat(_)
Concat(chunks) ==
  IF chunks = <<>> THEN <<>> ELSE Head(chunks) \o Concat(Tail(chunks))

(* contentType.includes('application/json') *)
IsJson(ctype) == ctype = "application/json; charset=utf-8"

(* JSON.parse(body): the texts of the model that are JSON *)
JsonParses(text) == text = <<"{", "}">>

(* what the 'end' listener of _parseBody leaves in ctx.body *)
ParsedBody(chunks, ctype, was) ==
  LET body == Concat(chunks)
  IN  IF body = <<>> THEN was
      ELSE IF IsJson(ctype) /\ JsonParses(body) THEN <<"object">>
      ELSE body

(* res.end(body): the first end() puts the status and the body on the wire *)
End(res, body) ==
  [res EXCEPT !.ends = res.ends + 1,
              !.wire = IF res.ends = 0 THEN <<res.statusCode, body>> ELSE res.wire]

Ran(r, kind, id, what) == Append(r.ran, <<kind, id, what>>)

(* addRoute(method, path, handler): the handler is the n-th one handed to
   addRoute *)
HttpEngine_addRoute(method, path) ==
  /\ Len(routeLog) < MaxRoutes
  /\ routes' = Put(routes, RouteKey(ToUpperCase(method), path), Len(routeLog) + 1)
  /\ routeLog' = Append(routeLog, <<method, path>>)
  /\ UNCHANGED <<middlewares, req, reqPrev>>

(* use(middleware): the middleware is the n-th one handed to use() *)
HttpEngine_use ==
  /\ Len(middlewares) < MaxMiddlewares
  /\ middlewares' = Append(middlewares, Len(middlewares) + 1)
  /\ UNCHANGED <<routes, req, routeLog, reqPrev>>

(* mutant: a catch block that sets the status and does not end the
   response *)
Catch_unanswered(r) ==
  [r EXCEPT !.pc = "done", !.out = "caught",
            !.res.statusCode = 500,
            !.ran = Ran(r, "fallback", 500, "end")]

(* the catch block *)
Catch(r) ==
  [r EXCEPT !.pc = "done", !.out = "caught",
            !.res = End([r.res EXCEPT !.statusCode = 500], "error"),
            !.ran = Ran(r, "fallback", 500, "end")]

(* from the head of the middleware loop at position r.i up to the next
   await or the end of the method *)
Proceed(r) ==
  IF r.i <= Len(middlewares)
  THEN [r EXCEPT !.pc = "middleware",
                 !.ctx.marks = Append(r.ctx.marks, middlewares[r.i]),
                 !.ran = Ran(r, "middleware", middlewares[r.i], "begin")]
  ELSE IF Has(routes, r.routeKey)
  THEN [r EXCEPT !.pc = "handler", !.handler = routes[r.routeKey],
                 !.ran = Ran(r, "handler", routes[r.routeKey], "begin")]
  ELSE [r EXCEPT !.pc = "done", !.out = "notfound",
                 !.res = End([r.res EXCEPT !.statusCode = 404], "error"),
                 !.ran = Ran(r, "fallback", 404, "end")]

(* _handleRequest(req, res) up to its first await *)
HttpEngine_handleRequest_enter(method, url, ctype, body) ==
  /\ req.pc \in {"idle", "done"}
  /\ reqPrev' = IF req.out = "caught" THEN "caught" ELSE None
  /\ LET r == [NoRequest EXCEPT
                 !.method = method, !.url = url, !.ctype = ctype,
                 !.incoming = body, !.i = 1,
                 !.routeKey = RouteKey(method, Pathname(url)),
                 !.ctx.path = Pathname(url), !.ctx.method = method]
     IN  req' = IF method \in {"POST", "PUT", "PATCH"}
                THEN [r EXCEPT !.pc = "body"]
                ELSE Proceed(r)
  /\ UNCHANGED <<routes, middlewares, routeLog>>

(* _parseBody: a 'data' event *)
HttpEngine_parseBody_data ==
  /\ req.pc = "body"
  /\ req.incoming # <<>>
  /\ req' = [req EXCEPT !.incoming = Tail(req.incoming),
                        !.chunks = Append(req.chunks, Head(req.incoming))]
  /\ UNCHANGED <<routes, middlewares, routeLog, reqPrev>>

(* mutant: the body is taken to be complete before its last chunk *)
HttpEngine_parseBody_end_early ==
  /\ req.pc = "body"
  /\ req' = Proceed([req EXCEPT
                       !.ctx.body = ParsedBody(req.chunks, req.ctype, req.ctx.body),
                       !.ran = Ran(req, "body", 0, "end")])
  /\ UNCHANGED <<routes, middlewares, routeLog, reqPrev>>

(* _parseBody: the 'end' event, and _handleRequest up to its next await *)
HttpEngine_parseBody_end ==
  /\ req.pc = "body"
  /\ req.incoming = <<>>
  /\ req' = Proceed([req EXCEPT
                       !.ctx.body = ParsedBody(req.chunks, req.ctype, req.ctx.body),
                       !.ran = Ran(req, "body", 0, "end")])
  /\ UNCHANGED <<routes, middlewares, routeLog, reqPrev>>

(* _parseBody: the 'error' event rejects, the catch block answers *)
HttpEngine_parseBody_error ==
  /\ req.pc = "body"
  /\ req' = Catch([req EXCEPT !.ran = Ran(req, "body", 0, "error")])
  /\ UNCHANGED <<routes, middlewares, routeLog, reqPrev>>

HttpEngine_parseBody ==
  HttpEngine_parseBody_data \/ HttpEngine_parseBody_end \/ HttpEngine_parseBody_error

(* mutant: the result of the middleware is not looked at *)
HttpEngine_handleRequest_middleware_ignoreStop(outcome) ==
  /\ req.pc = "middleware"
  /\ LET id == middlewares[req.i]
         r == [req EXCEPT !.ran = Ran(req, "middleware", id, outcome)]
     IN  req' = CASE outcome = "pass" -> Proceed([r EXCEPT !.i = req.i + 1])
                  [] outcome = "stop" ->
                       Proceed([r EXCEPT !.i = req.i + 1,
                                  !.res = End([r.res EXCEPT !.statusCode = 403], "denied")])
                  [] outcome = "throw" -> Catch(r)
                  [] outcome = "next" -> Catch(r)
  /\ UNCHANGED <<routes, middlewares, routeLog, reqPrev>>

(* `const result = await middleware(ctx)` resumes.  The middleware was
   called with ctx alone: one that calls its second argument calls
   undefined, which throws a TypeError. *)
HttpEngine_handleRequest_middleware(outcome) ==
  /\ req.pc = "middleware"
  /\ LET id == middlewares[req.i]
         r == [req EXCEPT !.ran = Ran(req, "middleware", id, outcome)]
     IN  req' = CASE outcome = "pass" -> Proceed([r EXCEPT !.i = req.i + 1])
                  [] outcome = "stop" ->
                       [r EXCEPT !.pc = "done", !.out = "stopped",
                                 !.res = End([r.res EXCEPT !.statusCode = 403], "denied")]
                  [] outcome = "throw" -> Catch(r)
                  [] outcome = "next" -> Catch(r)
  /\ UNCHANGED <<routes, middlewares, routeLog, reqPrev>>

(* `await handler(ctx)` resumes *)
HttpEngine_handleRequest_handler(outcome) ==
  /\ req.pc = "handler"
  /\ LET r == [req EXCEPT !.ran = Ran(req, "handler", req.handler, outcome)]
         answered == [r EXCEPT !.res = End(r.res, "answer")]
     IN  req' = CASE outcome = "respond" ->
                       [answered EXCEPT !.pc = "done", !.out = "handled"]
                  [] outcome = "throw" -> Catch(r)
                  [] outcome = "respondThrow" -> Catch(answered)
  /\ UNCHANGED <<routes, middlewares, routeLog, reqPrev>>

NextHttp ==
  \/ \E method \in RouteMethods, path \in RoutePaths :
        HttpEngine_addRoute(method, path) /\ UNCHANGED <<lifeVars, regVars, overlapVars>>
  \/ HttpEngine_use /\ UNCHANGED <<lifeVars, regVars, overlapVars>>
  \/ \E method \in RequestMethods, url \in RequestUrls,
        ctype \in ContentTypes, body \in Bodies :
        /\ method = "GET" => ctype = "text/plain" /\ Len(body) < 2
        /\ HttpEngine_handleRequest_enter(method, url, ctype, body)
        /\ UNCHANGED <<lifeVars, regVars, overlapVars>>
  \/ HttpEngine_parseBody /\ UNCHANGED <<lifeVars, regVars, overlapVars>>
  \/ \E outcome \in MiddlewareOutcomes :
        HttpEngine_handleRequest_middleware(outcome) /\ UNCHANGED <<lifeVars, regVars, overlapVars>>
  \/ \E outcome \in HandlerOutcomes :
        HttpEngine_handleRequest_handler(outcome) /\ UNCHANGED <<lifeVars, regVars, overlapVars>>

SpecHttp == Init /\ [][NextHttp]_vars

----------------------------------------------------------------------------
(* Reading the log of a top-level call *)

Done == cur.res \in {"ok", "error"}

IsLifecycle == cur.op \in {"init", "start", "stop"}

(* the units whose <phase> hook was entered, in the order it happened *)
RECURSIVE HookUnits(_, _)
HookUnits(lg, phase) ==
  IF lg = <<>> THEN <<>>
  ELSE LET x == Head(lg) IN
       IF x[1] = "hook" /\ x[3] = <<phase, "begin">>
       THEN <<x[2]>> \o HookUnits(Tail(lg), phase)
       ELSE HookUnits(Tail(lg), phase)

(* the <phase> hook of the Flow is its loop over the engines, entered right
   after flow.before_<phase> *)
HookRuns(u, phase) ==
  IF u = "flow"
  THEN Cardinality({k \in 1..Len(log) :
         log[k] = EmitEntry("flow", <<"flow", Before(phase)>>, "flow")})
  ELSE Cardinality({k \in 1..Len(log) : log[k] = HookEntry(u, phase, "begin")})

Emitted(bus, ev) ==
  \E k \in 1..Len(log) : log[k][1] = "emit" /\ log[k][2] = bus /\ log[k][3] = ev

RECURSIVE Filter(_, _)
Filter(s, keep) ==
  IF s = <<>> THEN <<>>
  ELSE IF Head(s) \in keep THEN <<Head(s)>> \o Filter(Tail(s), keep)
  ELSE Filter(Tail(s), keep)

IsPrefix(s, t) == Len(s) <= Len(t) /\ s = SubSeq(t, 1, Len(s))

(* whether the unit is in the state the operation brings it to *)
InTarget(fl, op, u) ==
  CASE op = "init" -> fl.init[u]
    [] op = "start" -> fl.started[u]
    [] op = "stop" -> ~fl.started[u]

(* the Flow loop an exception left: the innermost Flow frame it unwound *)
LoopFrames == {k \in 1..Len(unwound) :
                 unwound[k].cls = "Flow" /\ unwound[k].pc = "loop"}

FailedLoop ==
  unwound[CHOOSE k \in LoopFrames : \A j \in LoopFrames : j <= k]

----------------------------------------------------------------------------
(* C1: a second init() / start() / stop() right after one that returned
   normally runs no hook, emits no event, returns normally and leaves every
   flag as it was; and the first call of such a pair, made on a unit that was
   not yet in the state the call brings it to, ran the unit's hook exactly
   once. *)
C1_Idempotent ==
  /\ (IsLifecycle /\ prev = "ok") =>
        /\ log = <<>>
        /\ Flags = callPre
        /\ cur.res # "error"
  /\ (IsLifecycle /\ cur.res = "ok" /\ ~InTarget(callPre, cur.op, cur.u)) =>
        /\ HookRuns(cur.u, cur.op) = 1
        /\ InTarget(Flags, cur.op, cur.u)

C1_Witness ==
  /\ cur.op = "start"
  /\ cur.u \in Engines
  /\ prev = "ok"
  /\ cur.res = "ok"
  /\ started[cur.u]

(* C2: a Flow.start() of a flow that is not started enters the start hooks
   of the engines that are not yet started in registration order, a
   Flow.stop() of a started flow enters the stop hooks of the started
   engines in reverse registration order (a start() of a started flow and a
   stop() of a flow that is not started enter none), and a hook has ended
   before the next hook is entered. *)
C2_Ordering ==
  /\ (cur.u = "flow" /\ cur.op = "start") =>
        LET want == IF callPre.started["flow"] THEN <<>>
                    ELSE Filter(engines, {e \in Engines : ~callPre.started[e]})
        IN  /\ IsPrefix(HookUnits(log, "start"), want)
            /\ cur.res = "ok" => HookUnits(log, "start") = want
  /\ (cur.u = "flow" /\ cur.op = "stop") =>
        LET want == IF ~callPre.started["flow"] THEN <<>>
                    ELSE Filter(Reverse(engines), {e \in Engines : callPre.started[e]})
        IN  /\ IsPrefix(HookUnits(log, "stop"), want)
            /\ cur.res = "ok" => HookUnits(log, "stop") = want
  /\ \A p, q \in 1..Len(log) :
        (p < q /\ log[p][1] = "hook" /\ log[p][3][2] = "begin"
               /\ log[q][1] = "hook" /\ log[q][3][2] = "begin") =>
        \E r \in (p + 1)..(q - 1) :
           log[r] = HookEntry(log[p][2], log[p][3][1], "end")

C2_Witness ==
  /\ cur.u = "flow"
  /\ cur.op = "stop"
  /\ cur.res = "ok"
  /\ Len(engines) = 3
  /\ HookUnits(log, "stop") = Reverse(engines)
  /\ \A e \in Engines : ~started[e]

(* C3: once a stop() has stopped a unit, a start() or init() on that unit
   does not enter the start hook and does not bring the unit back to
   started. *)
C3_StoppedIsTerminal ==
  (IsLifecycle /\ prev = "stopped") =>
     /\ ~started[cur.u]
     /\ HookRuns(cur.u, "start") = 0

(* C4: when the init hook fails, the caller of init() gets the error, the
   unit stays uninitialized, after_init is not emitted, and an init() made
   right after it runs the init hook again. *)
C4_InitFailure ==
  /\ \A e \in Engines :
        (log # <<>> /\ log[Len(log)] = HookEntry(e, "init", "fail")) =>
           /\ cur.res = "error"
           /\ stack = <<>>
           /\ ~initialized[e]
           /\ initialized[e] = callPre.init[e]
           /\ started[e] = callPre.started[e]
           /\ ~Emitted(e, <<"engine", "after_init">>)
  /\ (cur.u = "flow" /\ cur.op = "init" /\ cur.res = "error") =>
        /\ ~initialized["flow"]
        /\ ~Emitted("flow", <<"flow", "after_init">>)
  /\ (cur.op = "init" /\ prev = "error" /\ Done) => HookRuns(cur.u, "init") = 1

C4_Witness ==
  /\ cur.op = "init"
  /\ cur.u \in Engines
  /\ prev = "error"
  /\ cur.res = "ok"
  /\ initialized[cur.u]

(* C5: when an engine's lifecycle call fails inside a loop of the Flow, the
   Flow's caller gets the error, the engines after it in the loop have not
   had their hook run and are as they were when the loop began, the engines
   before it are in the state the loop brought them to, and the Flow's flag
   of that phase is unchanged. *)
C5_LoopAbort ==
  (cur.u = "flow" /\ IsLifecycle /\ cur.res = "error") =>
     /\ stack = <<>>
     /\ LoopFrames # {}
     /\ LET f == FailedLoop
            order == IF f.op = "stop" THEN f.snap ELSE engines
            at == f.i - 1
        IN  /\ at \in 1..Len(order)
            /\ ~InTarget(Flags, f.op, "flow")
            /\ InTarget(Flags, f.op, "flow") = InTarget(callPre, f.op, "flow")
            /\ \A k \in 1..Len(order) :
                  /\ k < at => InTarget(Flags, f.op, order[k])
                  /\ k > at =>
                       /\ HookRuns(order[k], f.op) = 0
                       /\ initialized[order[k]] = loopPre.init[order[k]]
                       /\ started[order[k]] = loopPre.started[order[k]]

C5_Witness ==
  /\ cur.u = "flow"
  /\ cur.op = "start"
  /\ cur.res = "error"
  /\ Len(engines) = 3
  /\ LoopFrames # {}
  /\ FailedLoop.op = "start"
  /\ FailedLoop.i = 3
  /\ started[engines[1]]
  /\ ~started[engines[2]]
  /\ ~started[engines[3]]

----------------------------------------------------------------------------
(* Reading the registry *)

(* the name an alias chain ends at, None when the chain runs in a circle *)
RECURSIVE Chase(_, _)
Chase(name, fuel) ==
  IF ~Has(aliases, name) THEN name
  ELSE IF fuel = 0 THEN None
  ELSE Chase(aliases[name], fuel - 1)

EndOf(name) == Chase(name, Cardinality(Names))

(* the names a resolution may start at to arrive at n *)
Routes(n) == {x \in Names : EndOf(x) = n}

(* the names successfully registered under a tag, in registration order *)
RECURSIVE UnderTag(_, _)
UnderTag(order, tag) ==
  IF order = <<>> THEN <<>>
  ELSE IF Head(order)[2] = tag
       THEN <<Head(order)[1]>> \o UnderTag(Tail(order), tag)
       ELSE UnderTag(Tail(order), tag)

RECURSIVE Once(_, _)
Once(names, had) ==
  IF names = <<>> THEN <<>>
  ELSE IF Head(names) \in had THEN Once(Tail(names), had)
  ELSE <<Head(names)>> \o Once(Tail(names), had \cup {Head(names)})

(* C6: no name is held by both an instance stored by set() and a
   factory. *)
C6_NeverBoth ==
  \A n \in Names :
     ~(Has(factories, n) /\ Has(services, n) /\ services[n][1] = "v")

(* C7 as stated: after a registration of a name has succeeded, the same
   registration made again fails, leaves the registry as it was, and get()
   of the name returns the value of the first registration. *)
C7_FirstStillResolves ==
  /\ (regLast.op = "set" /\ regLast.res = "ok") =>
        LET n == regLast.name
            again == ServiceManager_set(Registry, n, Fresh(n), <<"t">>)
            got == ServiceManager_get(again.R, n, {})
        IN  /\ again.res = "error"
            /\ again.R = Registry
            /\ got.res = "ok"
            /\ got.val = Instance(n, 1)
  /\ (regLast.op = "setFactory" /\ regLast.res = "ok") =>
        LET n == regLast.name
            again == ServiceManager_setFactory(Registry, n, n, <<"t">>)
            got == ServiceManager_get(again.R, n, {})
        IN  /\ again.res = "error"
            /\ again.R = Registry
            /\ got.res = "ok"
            /\ got.val = Product(n, 1, <<"this">>)

(* C7, amended: a set() of a name that holds an instance and a setFactory()
   of a name that holds an instance or a factory fail and leave the
   instances, factories, aliases and tag index as they were; get() of the
   name then returns what it returned before the failed call, which for a
   name that is not an alias is the instance the name holds, or else what
   the factory it holds makes. *)
C7_FailedRegistration ==
  \A n \in Names, tl \in TagLists :
     LET again == ServiceManager_set(Registry, n, Fresh(n), tl)
         fagain == ServiceManager_setFactory(Registry, n, n, tl)
         Same(r) ==
           /\ r.R = Registry
           /\ ServiceManager_get(r.R, n, {}) = ServiceManager_get(Registry, n, {})
           /\ ~Has(aliases, n) =>
                 LET got == ServiceManager_get(r.R, n, {})
                 IN  /\ got.res = "ok"
                     /\ got.val = IF Has(services, n) THEN services[n]
                                  ELSE Product(factories[n], invoked[factories[n]] + 1,
                                               <<"this">>)
     IN  /\ Has(services, n) => again.res = "error"
         /\ (Has(services, n) \/ Has(factories, n)) => fagain.res = "error"
         /\ again.res = "error" => Same(again)
         /\ fagain.res = "error" => Same(fagain)

C7_Witness ==
  /\ regLast.op = "set"
  /\ regLast.res = "error"
  /\ Has(services, regLast.name)
  /\ ~Has(aliases, regLast.name)
  /\ Has(tags, "t")

(* C8 as stated: get() of a name that holds a factory which has not run and
   returns normally gives the same value twice, the one the factory made
   when called with the registry, and the factory has then run once. *)
C8_FactoryCachedOnce ==
  \A n \in DOMAIN factories :
     (~Has(services, n) /\ invoked[factories[n]] = 0) =>
        LET g1 == ServiceManager_get(Registry, n, {})
            g2 == ServiceManager_get(g1.R, n, {})
        IN  /\ g1.res = "ok"
            /\ g2.res = "ok"
            /\ g1.val = g2.val
            /\ g1.val = Product(factories[n], 1, <<"this">>)
            /\ g2.R.invoked[factories[n]] = 1

(* C8, amended: for a name that is not an alias and holds a factory and no
   instance, two resolutions that arrive at it (get() of the name, get() of
   an alias that leads to it, getByTag() of a tag it is under) with the
   factory returning normally give the same value, the one the factory made
   when called with the registry alone; the first one runs the factory once
   and stores what it made, the second does not run it. *)
C8_FactoryCachedOnceUnlessAliased ==
  \A n \in Pending \ DOMAIN aliases :
     LET f == factories[n]
         made == Product(f, invoked[f] + 1, <<"this">>)
     IN  /\ \A x1 \in Routes(n), x2 \in Routes(n) :
               LET g1 == ServiceManager_get(Registry, x1, {})
                   g2 == ServiceManager_get(g1.R, x2, {})
               IN  /\ g1.res = "ok" /\ g1.val = made
                   /\ g2.res = "ok" /\ g2.val = made
                   /\ g1.R.services[n] = made
                   /\ g1.R.invoked[f] = invoked[f] + 1
                   /\ g2.R = g1.R
         /\ \A tag \in DOMAIN tags :
               (\E k \in 1..Len(tags[tag]) : tags[tag][k] \in Routes(n)) =>
                  LET b1 == ServiceManager_getByTag(Registry, tag, {})
                      b2 == ServiceManager_getByTag(b1.R, tag, {})
                      g == ServiceManager_get(b1.R, n, {})
                  IN  b1.res = "ok" =>
                        /\ \A k \in 1..Len(tags[tag]) :
                              tags[tag][k] \in Routes(n) => b1.val[k] = made
                        /\ b1.R.invoked[f] = invoked[f] + 1
                        /\ b2.res = "ok" /\ b2.val = b1.val /\ b2.R = b1.R
                        /\ g.res = "ok" /\ g.val = made /\ g.R = b1.R

C8_Witness ==
  /\ regLast = [op |-> "get", name |-> "c", res |-> "ok"]
  /\ Has(aliases, "c") /\ aliases["c"] = "a"
  /\ ~Has(aliases, "a")
  /\ Has(factories, "a")
  /\ Has(services, "a") /\ services["a"] = Product("a", 1, <<"this">>)
  /\ invoked["a"] = 1
  /\ Has(tags, "t") /\ "a" \in Range(tags["t"])

(* C9: setAlias(x, y) succeeds whatever y is, unless x is an alias already,
   and then it fails and changes nothing; get(x) of an alias x is get() of
   its target: the instance at the end of the alias chain, or what the
   factory there makes, or a not-found error when nothing is registered
   there. *)
C9_AliasLateBound ==
  /\ \A x \in Names, y \in Names :
        LET r == ServiceManager_setAlias(Registry, x, y)
        IN  IF Has(aliases, x)
            THEN r.res = "error" /\ r.R = Registry
            ELSE /\ r.res = "ok"
                 /\ r.R = [Registry EXCEPT !.aliases = Put(aliases, x, y)]
                 /\ r.R.aliases[x] = y
  /\ \A x \in DOMAIN aliases, bad \in SUBSET Pending :
        LET gx == ServiceManager_get(Registry, x, bad)
            gy == ServiceManager_get(Registry, aliases[x], bad)
            end == EndOf(x)
        IN  /\ gx = gy
            /\ end = None => gx.res = "overflow"
            /\ (end # None /\ Has(services, end)) =>
                  gx.res = "ok" /\ gx.val = services[end] /\ gx.R = Registry
            /\ (end # None /\ ~Has(services, end) /\ Has(factories, end)
                  /\ factories[end] \notin bad) =>
                  /\ gx.res = "ok"
                  /\ gx.val = Product(factories[end], invoked[factories[end]] + 1,
                                      <<"this">>)
            /\ (end # None /\ ~Has(services, end) /\ ~Has(factories, end)) =>
                  gx.res = "notfound" /\ gx.R = Registry

C9_Witness ==
  /\ regLast = [op |-> "get", name |-> "c", res |-> "ok"]
  /\ Has(aliases, "c") /\ aliases["c"] = "b"
  /\ Has(aliases, "b") /\ aliases["b"] = "a"
  /\ Has(services, "a") /\ services["a"] = Instance("a", 1)

(* C10: getByTag(tag) returns one value per name registered under the tag,
   the value get() resolves the name to, in the order the names were
   registered; the empty list for a tag no registration used; and the tag
   index holds every registration made under the tag. *)
C10_ByTag ==
  \A tag \in Tags :
     LET b == ServiceManager_getByTag(Registry, tag, {})
         registered == UnderTag(regOrder, tag)
         names == Once(registered, {})
     IN  /\ registered = <<>> => (b.res = "ok" /\ b.val = <<>>)
         /\ registered # <<>> => (Has(tags, tag) /\ tags[tag] = registered)
         /\ b.res = "ok" =>
               /\ Len(b.val) = Len(names)
               /\ \A k \in 1..Len(names) :
                     b.val[k] = ServiceManager_get(Registry, names[k], {}).val

----------------------------------------------------------------------------
(* Reading a request *)

(* the addRoute calls that registered a handler at the method and pathname
   of request r *)
RoutesFor(r) ==
  {k \in 1..Len(routeLog) :
     /\ routeLog[k][2] = r.url[1]
     /\ \/ routeLog[k][1] = r.method
        \/ routeLog[k][1] = "get" /\ r.method = "GET"}

Latest(ks) == CHOOSE k \in ks : \A j \in ks : j <= k

(* the entries of one kind in what a request ran *)
RanOf(r, kind) == SelectSeq(r.ran, LAMBDA x : x[1] = kind)

(* the step leaves the middleware loop of a request: it looks the route up *)
Lookup == req' # req /\ (req'.pc = "handler" \/ req'.out = "notfound")

(* C11: when the middleware chain of a request has completed, the handler
   invoked is the one registered (last) at exactly the request's method and
   pathname; a handler registered at another method or at a path that
   differs by a trailing slash is not invoked; when no handler is
   registered there, no handler is invoked and the answer is status 404
   with the JSON error body. *)
C11_ExactRouting ==
  [][Lookup =>
       IF RoutesFor(req') = {}
       THEN /\ req'.out = "notfound"
            /\ req'.res.wire = <<404, "error">>
            /\ req'.res.ends = 1
            /\ RanOf(req', "handler") = <<>>
       ELSE /\ req'.pc = "handler"
            /\ req'.handler = Latest(RoutesFor(req'))
            /\ RanOf(req', "handler") = << <<"handler", req'.handler, "begin">> >>
            /\ req'.res.ends = 0]_vars

C11_Witness ==
  /\ routeLog = << <<"get", "/foo">>, <<"POST", "/foo/">> >>
  /\ req.method = "GET"
  /\ req.url = <<"/foo/", "">>
  /\ req.out = "notfound"
  /\ Len(middlewares) = 2
  /\ req.res.wire = <<404, "error">>

(* a middleware of the request returned the stop sentinel *)
Stopped(r) == \E k \in 1..Len(r.ran) : r.ran[k][3] = "stop"

(* C12: when a middleware has returned false, the middlewares before it
   have run and passed, in order, it is the last thing the request ran (no
   later middleware, no handler, no 404 or 500 fallback), the response is the
   one it produced, and ctx carries the changes of the middlewares up to and
   including it and no other. *)
C12_ShortCircuit ==
  Stopped(req) =>
    LET mw == RanOf(req, "middleware")
        k == Len(mw) \div 2
    IN  /\ req.pc = "done"
        /\ k >= 1 /\ Len(mw) = 2 * k /\ k <= Len(middlewares)
        /\ \A j \in 1..k :
              /\ mw[2 * j - 1] = <<"middleware", middlewares[j], "begin">>
              /\ mw[2 * j] = <<"middleware", middlewares[j],
                               IF j = k THEN "stop" ELSE "pass">>
        /\ req.ran[Len(req.ran)] = mw[2 * k]
        /\ RanOf(req, "handler") = <<>>
        /\ RanOf(req, "fallback") = <<>>
        /\ req.handler = 0
        /\ req.ctx.marks = SubSeq(middlewares, 1, k)
        /\ req.res = [statusCode |-> 403, ends |-> 1, wire |-> <<403, "denied">>]

C12_Witness ==
  /\ Stopped(req)
  /\ Len(middlewares) = 3
  /\ req.ctx.marks = <<1, 2>>
  /\ Has(routes, req.routeKey)
  /\ req.method = "POST"

(* a middleware, the handler or the body stream of the request raised *)
Raised(r) ==
  \E k \in 1..Len(r.ran) :
     r.ran[k][3] \in {"throw", "next", "respondThrow", "error"}

(* the response had been ended by the time the request raised *)
EndedBefore(r) == \E k \in 1..Len(r.ran) : r.ran[k][3] = "respondThrow"

(* C13 as stated: a request in which a middleware or the handler raised is
   answered with status 500 and the JSON error body. *)
C13_AnsweredWith500 ==
  Raised(req) => req.res.wire = <<500, "error">>

(* C13, amended: the step in which a middleware or the handler (or the body
   stream) raises ends the request in the catch block, which sets status 500
   and ends the response with the JSON error body; that is the answer on the
   wire unless the response had been ended before the error was raised.
   The step leaves the lifecycle flags, the route table and the middleware
   list as they were, and the request after it starts from a fresh context
   and response and can be handled by its handler. *)
C13_Contained ==
  [][/\ (Raised(req') /\ ~Raised(req)) =>
          /\ req'.pc = "done"
          /\ req'.out = "caught"
          /\ req'.ran[Len(req'.ran)] = <<"fallback", 500, "end">>
          /\ req'.res.statusCode = 500
          /\ IF EndedBefore(req')
             THEN req'.res.wire = <<200, "answer">> /\ req'.res.ends = 2
             ELSE req'.res.wire = <<500, "error">> /\ req'.res.ends = 1
          /\ UNCHANGED <<initialized, started, engines, routes, middlewares>>
     /\ (reqPrev' = "caught" /\ req'.out = "handled") =>
          /\ req'.res = [statusCode |-> 200, ends |-> 1, wire |-> <<200, "answer">>]
          /\ RanOf(req', "fallback") = <<>>
          /\ Len(req'.ctx.marks) * 2 = Len(RanOf(req', "middleware"))]_vars

C13_Witness ==
  /\ reqPrev = "caught"
  /\ req.out = "handled"
  /\ Len(middlewares) >= 1
  /\ req.res.wire = <<200, "answer">>

(* C14: a middleware that calls the continuation it is given and then
   returns lets the request go on: what the request runs next is the
   following middleware, the handler or the 404 fallback, not the catch
   block. *)
C14_NextContinues ==
  \A k \in 1..Len(req.ran) :
     req.ran[k][3] = "next" =>
        /\ req.out # "caught"
        /\ k < Len(req.ran) => req.ran[k + 1] # <<"fallback", 500, "end">>

(* C15: no factory is invoked more than once, however its name is reached
   and whether or not an invocation raised. *)
C15_AtMostOnce ==
  \A f \in FactoryIds : invoked[f] <= 1

(* what a request that passes its first n middlewares has run when the n-th
   has returned: the body first, for a method that carries one, then each
   middleware begun and ended before the next *)
RECURSIVE Passed(_)
Passed(n) ==
  IF n = 0 THEN <<>>
  ELSE Passed(n - 1) \o << <<"middleware", middlewares[n], "begin">>,
                           <<"middleware", middlewares[n], "pass">> >>

Chain(r, n) ==
  (IF r.method \in {"POST", "PUT", "PATCH"} THEN << <<"body", 0, "end">> >> ELSE <<>>)
    \o Passed(n)

(* the value of ctx.body for the bodies and content types of the model *)
BodyOf(chunks, ctype) ==
  CASE chunks = <<>> -> <<"null">>
    [] chunks = << <<"{">> >> -> <<"{">>
    [] chunks = << <<"{">>, <<"}">> >> ->
         IF ctype = "text/plain" THEN <<"{", "}">> ELSE <<"object">>

(* C16: a request that is not stopped and does not raise has run, when it
   looks its route up, every registered middleware once, in registration
   order, each returned before the next began, and then invokes the handler
   of its route, which runs once and last; for POST the whole body has
   arrived and is in ctx.body before the first middleware begins. *)
C16_ChainThenHandler ==
  [][/\ Lookup =>
          \E last \in {<<"handler", req'.handler, "begin">>, <<"fallback", 404, "end">>} :
             req'.ran = Append(Chain(req', Len(middlewares)), last)
     /\ (req'.out = "handled") =>
          \E n \in 0..Len(middlewares') :
             req'.ran = Chain(req', n) \o << <<"handler", req'.handler, "begin">>,
                                             <<"handler", req'.handler, "respond">> >>
     /\ (req'.method = "POST" /\ RanOf(req', "middleware") # <<>>) =>
          /\ req'.ran[1] = <<"body", 0, "end">>
          /\ req'.incoming = <<>>
          /\ req'.chunks \in Bodies
          /\ req'.ctx.body = BodyOf(req'.chunks, req'.ctype)
     /\ (req'.method = "GET") => req'.ctx.body = <<"null">>]_vars

C16_Witness ==
  /\ req.out = "handled"
  /\ req.method = "POST"
  /\ Len(middlewares) = 3
  /\ req.ctx.marks = <<1, 2, 3>>
  /\ req.ctx.body = <<"object">>

----------------------------------------------------------------------------
(* Reading the events of a call *)

(* the name of a unit's own lifecycle event *)
OwnEvent(u, name) == IF u = "flow" THEN <<"flow", name>> ELSE <<"engine", name>>

(* where in the log the unit emitted its event *)
EmittedAt(u, name) ==
  {k \in 1..Len(log) : log[k] = EmitEntry(u, OwnEvent(u, name), u)}

(* the exception of the current call came out of an init() of the unit *)
InitFailedIn(u) ==
  /\ cur.res = "error"
  /\ \E k \in 1..Len(unwound) : unwound[k].op = "init" /\ unwound[k].u = u

(* C17 as stated: a started unit is initialized; a start() of a unit that is
   not initialized emits before_start only after after_init (and, for an
   engine, enters the start hook only after the init hook has ended); when
   the init() it calls fails, start() fails, the start hook is not run and
   the unit is neither initialized nor started. *)
C17_InitBeforeStart ==
  /\ \A u \in Units : started[u] => initialized[u]
  /\ (cur.op = "start" /\ ~callPre.init[cur.u]) =>
        /\ \A p \in EmittedAt(cur.u, "before_start") :
              \E q \in EmittedAt(cur.u, "after_init") : q < p
        /\ \A p \in 1..Len(log) :
              log[p] = HookEntry(cur.u, "start", "begin") =>
                 \E q \in 1..(p - 1) : log[q] = HookEntry(cur.u, "init", "end")
        /\ InitFailedIn(cur.u) =>
              /\ HookRuns(cur.u, "start") = 0
              /\ ~started[cur.u]
              /\ ~initialized[cur.u]

(* C17, amended: as stated, except that the unit is left initialized when
   the init() that start() called failed in an after_init listener, which
   runs after the flag is set; it is left uninitialized when init() failed
   before that (in the init hook or in a before_init listener). *)
C17_InitBeforeStartOrFlagSet ==
  /\ \A u \in Units : started[u] => initialized[u]
  /\ (cur.op = "start" /\ ~callPre.init[cur.u]) =>
        /\ \A p \in EmittedAt(cur.u, "before_start") :
              \E q \in EmittedAt(cur.u, "after_init") : q < p
        /\ \A p \in 1..Len(log) :
              log[p] = HookEntry(cur.u, "start", "begin") =>
                 \E q \in 1..(p - 1) : log[q] = HookEntry(cur.u, "init", "end")
        /\ InitFailedIn(cur.u) =>
              /\ HookRuns(cur.u, "start") = 0
              /\ ~started[cur.u]
              /\ initialized[cur.u] <=> EmittedAt(cur.u, "after_init") # {}

C17_Witness ==
  /\ cur = [op |-> "start", u |-> "A", res |-> "error"]
  /\ ~callPre.init["A"]
  /\ InitFailedIn("A")
  /\ log[Len(log)] = HookEntry("A", "init", "fail")
  /\ ~initialized["A"]
  /\ flowOf["A"]

(* the registrations for an event of a bus, in the order they were made *)
Regs(bus, ev) == SelectSeq(listeners, LAMBDA r : r.bus = bus /\ r.event = ev)

(* the registrations an emission calls: all of them, or those up to the
   first one that throws *)
Called(bus, ev) ==
  LET rs == Regs(bus, ev)
      bad == {k \in 1..Len(rs) : rs[k].throws}
  IN  IF bad = {} THEN rs
      ELSE SubSeq(rs, 1, CHOOSE k \in bad : \A j \in bad : k <= j)

Thrown(bus, ev) == \E k \in 1..Len(Regs(bus, ev)) : Regs(bus, ev)[k].throws

(* what emitting an event on a bus leaves in the log *)
Delivery(bus, ev, payload) ==
  <<EmitEntry(bus, ev, payload)>>
    \o [k \in 1..Len(Called(bus, ev)) |-> ListenerEntry(bus, ev, Called(bus, ev)[k].id)]

(* the log holds the sequence x from position k on, and no listener call
   right after it *)
Holds(k, x) ==
  /\ k + Len(x) - 1 <= Len(log)
  /\ SubSeq(log, k, k + Len(x) - 1) = x
  /\ k + Len(x) <= Len(log) => log[k + Len(x)][1] # "listener"

(* C18: an emission of an engine calls the listeners registered for the
   event on the engine, in registration order and once per registration;
   then, when the engine is attached to the Flow, the event is emitted on the
   Flow's bus under the name prefixed with "engine." and with the engine as
   payload, and the Flow's listeners for that name are called the same way;
   an engine that is not attached reaches no listener of the Flow, and
   neither does an emission one of the engine's own listeners threw in.  An
   emission of the Flow calls the Flow's listeners for the event in
   registration order. *)
C18_Propagation ==
  \A k \in 1..Len(log) :
     log[k][1] = "emit" =>
        IF log[k][2] \in Engines
        THEN LET e == log[k][2]
                 ev == log[k][3]
                 own == Delivery(e, ev, e)
                 up == Delivery("flow", <<"engine">> \o ev, e)
             IN  /\ log[k][4] = e
                 /\ IF flowOf[e] /\ ~Thrown(e, ev)
                    THEN Holds(k, own \o up)
                    ELSE /\ Holds(k, own)
                         /\ k + Len(own) <= Len(log) =>
                               log[k + Len(own)][2] # "flow"
        ELSE \/ Holds(k, Delivery("flow", log[k][3], log[k][4]))
             \/ /\ k > 1
                /\ log[k][3][1] = "engine"
                /\ log[k - 1][2] \in Engines
                /\ log[k - 1][3] = Tail(log[k][3])

C18_Witness ==
  /\ flowOf["A"]
  /\ Len(listeners) = 2
  /\ listeners[1] = [bus |-> "A", event |-> <<"engine", "before_init">>,
                     id |-> "f", throws |-> FALSE]
  /\ listeners[2] = listeners[1]
  /\ \E k \in 1..Len(log) : k + 3 <= Len(log) /\ SubSeq(log, k, k + 3) =
       << EmitEntry("A", <<"engine", "before_init">>, "A"),
          ListenerEntry("A", <<"engine", "before_init">>, "f"),
          ListenerEntry("A", <<"engine", "before_init">>, "f"),
          EmitEntry("flow", <<"engine", "engine", "before_init">>, "A") >>

(* the listeners that throw *)
ThrowingIds == {fn.id : fn \in {g \in ListenerFns : g.throws}}

ThrewAt(lg) == {k \in 1..Len(lg) : lg[k][1] = "listener" /\ lg[k][4] \in ThrowingIds}

(* the emission a log ends in: its last emit entry *)
LastEmit(lg) ==
  lg[CHOOSE k \in 1..Len(lg) :
       lg[k][1] = "emit" /\ \A j \in (k + 1)..Len(lg) : lg[j][1] # "emit"]

BeforeEvents == {"before_init", "before_start", "before_stop"}

(* C19: a listener that throws ends the call it was emitted from: nothing
   follows it in the call's sequence (no later listener of the emission, no
   listener of the Flow for an engine's event, no hook, no later phase), no
   frame is left and the caller gets the error.  When the event is a
   before_<phase> event, the step that emitted it leaves the flags of the
   unit the event is about as they were. *)
C19_ListenerAborts ==
  [][ThrewAt(log') # {} /\ log' # log =>
        /\ ThrewAt(log') = {Len(log')}
        /\ stack' = <<>>
        /\ cur'.res = "error"
        /\ LET em == LastEmit(log')
               u == em[4]
           IN  em[3][Len(em[3])] \in BeforeEvents =>
                  /\ initialized'[u] = initialized[u]
                  /\ started'[u] = started[u]
                  /\ \A k \in 1..Len(log') :
                        log'[k][1] = "hook" /\ log'[k][2] = u =>
                           \E j \in (k + 1)..Len(log') : log'[j] = em]_vars

C19_Witness ==
  /\ flowOf["A"]
  /\ Len(listeners) = 2
  /\ listeners[1] = [bus |-> "A", event |-> <<"engine", "before_init">>,
                     id |-> "g", throws |-> TRUE]
  /\ listeners[2] = [bus |-> "A", event |-> <<"engine", "before_init">>,
                     id |-> "f", throws |-> FALSE]
  /\ cur = [op |-> "init", u |-> "A", res |-> "error"]
  /\ log = << EmitEntry("A", <<"engine", "before_init">>, "A"),
              ListenerEntry("A", <<"engine", "before_init">>, "g") >>
  /\ ~initialized["A"]
  /\ stack = <<>>

----------------------------------------------------------------------------
(* Reading overlapping calls *)

(* a suspended call is awaiting the <phase> hook of engine e *)
InHook(phase, e) ==
  \E k \in 1..Len(parked) :
     LET f == parked[k].stack[Len(parked[k].stack)]
     IN  f.cls = "Engine" /\ f.op = phase /\ f.u = e /\ f.pc = "hook"

(* the running call is about to read the flag of <phase> *)
AtGuard(phase) ==
  IF phase = "init" THEN At("Engine", "init", "enter")
  ELSE \/ At("Engine", "start", "inited")
       \/ At("Engine", "start", "enter") /\ initialized[Top.u]

FlagOf(phase, e) == IF phase = "init" THEN initialized[e] ELSE started[e]

Begun(phase, e) == {k \in 1..Len(log) : log[k] = HookEntry(e, phase, "begin")}

(* C20: a call that reaches the flag test of init or start of an engine
   while another call is suspended in that very hook, with the flag not
   yet set, goes on to run the hook a second time: the flag is the only
   guard and it is assigned only after the hook has resolved.  The state in
   which two calls are both inside the start hook of one engine that is not
   started, after both ran its init hook, is reachable (C20_Witness). *)
C20_SecondCallRunsHook ==
  [][\A phase \in {"init", "start"} :
        (/\ AtGuard(phase)
         /\ InHook(phase, Top.u)
         /\ ~FlagOf(phase, Top.u))
        => /\ Len(log') > Len(log)
           /\ log'[Len(log')] = HookEntry(Top.u, phase, "begin")
           /\ stack'[Len(stack')] = [Top EXCEPT !.pc = "hook"]
           /\ parked' = parked
           /\ FlagOf(phase, Top.u)' = FALSE]_vars

C20_Witness ==
  /\ At("Engine", "start", "hook")
  /\ Top.u = "A"
  /\ InHook("start", "A")
  /\ ~started["A"]
  /\ cur.op = "start"
  /\ parked[1].cur.op = "start"
  /\ Cardinality(Begun("start", "A")) = 2
  /\ Cardinality(Begun("init", "A")) = 2

(* the fallbacks the framework wrote for a request: 404 and 500 *)
Fallbacks(r) == {k \in 1..Len(r.ran) : r.ran[k][1] = "fallback"}

(* the calls of end() a middleware or the handler made *)
OwnEnds(r) == {k \in 1..Len(r.ran) :
                 r.ran[k][1] \in {"middleware", "handler"} /\ r.ran[k][3] \in {"stop", "respond", "respondThrow"}}

(* C24: the response of a request is ended at most once: at most one of the
   404 and 500 fallbacks is written, and none onto a response that a
   middleware or the handler has ended. *)
C24_EndedOnce ==
  /\ req.res.ends <= 1
  /\ Cardinality(Fallbacks(req)) <= 1
  /\ \A f \in Fallbacks(req) : \A k \in OwnEnds(req) : f < k

----------------------------------------------------------------------------
(* The Flow and its engines between calls *)

InFlow == Range(engines)

(* C21: when a stop() of the Flow has returned without error, no engine
   registered in the Flow is started. *)
C21_StopStopsAll ==
  (cur = [op |-> "stop", u |-> "flow", res |-> "ok"] /\ stack = <<>>) =>
     \A e \in InFlow : ~started[e]

(* C22: when the Flow is started and no call is in progress, every engine
   registered in it is started; when flow.after_start is emitted every
   registered engine is started; and a start() of the Flow that has returned
   without error leaves every registered engine started. *)
C22_StartedMeansAllStarted ==
  /\ (started["flow"] /\ stack = <<>>) => \A e \in InFlow : started[e]
  /\ Emitted("flow", <<"flow", "after_start">>) => \A e \in InFlow : started[e]
  /\ (cur = [op |-> "start", u |-> "flow", res |-> "ok"] /\ stack = <<>>) =>
        \A e \in InFlow : started[e]

(* the hook of <phase> failed at engine e, and that ended the call *)
FailedAt(e, phase) == log # <<>> /\ log[Len(log)] = HookEntry(e, phase, "fail")

(* C23: when the start hook of an engine fails, the caller gets the error,
   the engine is initialized and not started and after_start is not
   emitted; when its stop hook fails the engine stays started and
   after_stop is not emitted; the Flow whose loop made the call is left as
   it was before the loop, without its after_ event.  A start() or stop()
   made right after one that failed this way runs the hook again, and a
   repeated stop() of the Flow enters the stop hook of exactly the engines
   that are still started, in reverse registration order. *)
C23_HookFailure ==
  /\ \A e \in Engines :
        FailedAt(e, "start") =>
           /\ cur.res = "error"
           /\ stack = <<>>
           /\ initialized[e]
           /\ ~started[e]
           /\ ~Emitted(e, <<"engine", "after_start">>)
           /\ cur.u = "flow" =>
                 /\ initialized["flow"]
                 /\ ~started["flow"]
                 /\ ~Emitted("flow", <<"flow", "after_start">>)
  /\ \A e \in Engines :
        FailedAt(e, "stop") =>
           /\ cur.res = "error"
           /\ stack = <<>>
           /\ started[e]
           /\ ~Emitted(e, <<"engine", "after_stop">>)
           /\ cur.u = "flow" =>
                 /\ started["flow"]
                 /\ ~Emitted("flow", <<"flow", "after_stop">>)
  /\ (cur.op = "start" /\ prev = "error" /\ callPre.init[cur.u] /\ Done) =>
        HookRuns(cur.u, "start") = 1
  /\ (cur.op = "stop" /\ prev = "error" /\ Done) =>
        /\ HookRuns(cur.u, "stop") = 1
        /\ cur.u = "flow" =>
              LET want == Filter(Reverse(engines),
                                 {e \in Engines : callPre.started[e]})
              IN  /\ HookUnits(log, "stop") # <<>>
                  /\ IsPrefix(HookUnits(log, "stop"), want)
                  /\ cur.res = "ok" => HookUnits(log, "stop") = want

C23_Witness ==
  /\ cur = [op |-> "stop", u |-> "flow", res |-> "ok"]
  /\ prev = "error"
  /\ Len(HookUnits(log, "stop")) \in 1..(Len(engines) - 1)
  /\ \A e \in InFlow : ~started[e] /\ initialized[e]
  /\ ~started["flow"]

====
